---- MODULE Spec2Model ----
(***************************************************************************)
(* Queue + dispatcher of index.js: the JSON queue file (readDb / writeDb), *)
(* the request handlers that mutate it (POST /api/send, /api/pair,         *)
(* /api/clear-queue) and the Puppeteer worker (startWorker, the interval   *)
(* timer, processQueueOnce, ensureBrowser, sendMessageToThread).           *)
(*                                                                         *)
(* Node runs one macrotask at a time: a handler, or the part of an async   *)
(* function between two awaits, is one atomic step.  Every await of a      *)
(* Puppeteer promise is a suspension point, so every such await is a       *)
(* program position (pc) of a dispatch cycle; the fs calls are synchronous *)
(* and stay inside the step that makes them.                               *)
(***************************************************************************)
EXTENDS Integers, Sequences, FiniteSets, TLC

\* ---- bounds of the model ------------------------------------------------
MaxMsgs == 2        \* message ids ever issued by POST /api/send
MaxCycles == 2      \* processQueueOnce runs that may be in flight together
MaxTime == 2        \* distinct values of the wall clock
MaxWriteFails == 1  \* writeDb calls of the worker that raise
MaxCodes == 1       \* distinct pairing codes

\* ---- values -------------------------------------------------------------
Null == "null"                 \* JS null / undefined of a string field
NoTime == 0                    \* an absent timestamp field
NoHandle == 0                  \* `let browser = null; let page = null;`
ErrComposer == "Composer not found on thread page"
ErrWrite == "EACCES: permission denied, open 'queue.json'"
Threads == {"", "12345"}
Texts == {"", "hello"}
Senders == {""}
Codes == 1..MaxCodes
Slots == 1..MaxCycles
InitPcs == {"launch", "newPage", "setUserAgent", "loadCookies", "goto"}

VARIABLES
  db,            \* content of queue.json: [messages, pairings]
  browser,       \* module variable browser (NoHandle or a browser handle)
  page,          \* module variable page (NoHandle or the handle of its browser)
  workerRunning, \* module variable workerRunning
  timerSet,      \* the setInterval timer of startWorker is installed
  cyc,           \* the processQueueOnce runs, one record per slot
  now,           \* wall clock read by new Date()
  nextId,        \* number of ids issued so far by uuidv4()
  launched,      \* number of browsers puppeteerExtra.launch has created
  deliverCalls,  \* per message id, the number of sendMessageToThread calls
  wfails,        \* number of writeDb calls of the worker that raised
  session        \* history of ensureBrowser: "none", "failed" (a call raised and
                 \* none has returned yet) or "ready" (a call ran to its end)

vars == <<db, browser, page, workerRunning, timerSet, cyc, now, nextId,
          launched, deliverCalls, wfails, session>>

\* ---- the queue file -----------------------------------------------------
EmptyDb == [messages |-> <<>>, pairings |-> {}]

\* the fallback of the catch branch taken on every read
readDb_AlwaysDefault == EmptyDb

readDb == db

writeDb(d) == db' = d

\* the record built by POST /api/send
NewItem(id, toThreadId, text, senderName, t) ==
  [id |-> id, toThreadId |-> toThreadId, text |-> text,
   senderName |-> IF senderName = "" THEN Null ELSE senderName,
   createdAt |-> t, status |-> "queued", lastError |-> Null,
   sentAt |-> NoTime, attemptedAt |-> NoTime]

\* the queued records, newest first
QueuedOf_NewestFirst(msgs) ==
  LET q == SelectSeq(msgs, LAMBDA m : m.status = "queued")
  IN  [n \in 1..Len(q) |-> q[Len(q) + 1 - n]]

\* db.messages.filter(m => m.status === 'queued')
QueuedOf(msgs) == SelectSeq(msgs, LAMBDA m : m.status = "queued")

\* a lookup by position: the first record stands in when no id matches
FindIndex_FirstWhenMissing(msgs, id) ==
  IF \E k \in 1..Len(msgs) : msgs[k].id = id
  THEN CHOOSE k \in 1..Len(msgs) :
         /\ msgs[k].id = id
         /\ \A j \in 1..(k-1) : msgs[j].id # id
  ELSE IF Len(msgs) > 0 THEN 1 ELSE 0

\* db2.messages.find(m => m.id === id), as the index of the first match, 0 if none
FindIndex(msgs, id) ==
  IF \E k \in 1..Len(msgs) : msgs[k].id = id
  THEN CHOOSE k \in 1..Len(msgs) :
         /\ msgs[k].id = id
         /\ \A j \in 1..(k-1) : msgs[j].id # id
  ELSE 0

\* the transition stamps createdAt as well
MarkSent_Restamps(m, t) ==
  [m EXCEPT !.status = "sent", !.sentAt = t, !.createdAt = t]

MarkSent(m, t) == [m EXCEPT !.status = "sent", !.sentAt = t]

MarkFailed(m, e, t) ==
  [m EXCEPT !.status = "failed", !.lastError = e, !.attemptedAt = t]

\* ---- a dispatch cycle ---------------------------------------------------
IdleCycle ==
  [pc |-> "idle", queued |-> <<>>, i |-> 0, first |-> FALSE,
   abort |-> "none", res |-> <<>>, h |-> NoHandle]

\* the early return left out: a run goes on whatever it captured
NothingQueued_NoEarlyReturn(queued) == FALSE

\* the test inverted: a run returns when it captured something
NothingQueued_Inverted(queued) == Len(queued) # 0

\* `if (!queued.length) return;`
NothingQueued(queued) == Len(queued) = 0

\* the run returns or its outer catch swallows an error
Ended(r, why) == [r EXCEPT !.pc = "done", !.abort = why, !.h = NoHandle]

\* the timer is installed only after a first run that met no error, as if the
\* error of the first run reached startWorker
TimerAfter_OnlyAfterCleanRun(c) ==
  timerSet \/ (cyc'[c].first /\ cyc'[c].pc = "done" /\ cyc'[c].abort = "none")

\* startWorker resumes after `await processQueueOnce()` and installs the timer
TimerAfter(c) == timerSet \/ (cyc'[c].first /\ cyc'[c].pc = "done")

\* ensureBrowser raised in run c (the run ended with abort "init"), or not
SessionAfter(c) ==
  IF cyc'[c].pc = "done" /\ cyc'[c].abort = "init" /\ session # "ready"
  THEN "failed" ELSE session

\* processQueueOnce from its entry to its first suspension point
Begin(c, isFirst) ==
  LET queued == QueuedOf(readDb.messages)
      r == [IdleCycle EXCEPT !.queued = queued, !.first = isFirst]
  IN  /\ cyc' = [cyc EXCEPT ![c] =
                   IF NothingQueued(queued) THEN Ended(r, "none")
                   ELSE IF browser = NoHandle THEN [r EXCEPT !.pc = "launch"]
                   ELSE IF page = NoHandle THEN Ended(r, "page")
                   ELSE [r EXCEPT !.pc = "evaluate"]]
      /\ timerSet' = TimerAfter(c)
      /\ UNCHANGED <<db, browser, page, now, nextId, launched, deliverCalls, wfails, session>>

FreeSlot(c) ==
  /\ cyc[c].pc \in {"idle", "done"}
  /\ \A d \in Slots : d < c => cyc[d].pc \notin {"idle", "done"}

StartWorker ==
  /\ ~workerRunning
  /\ workerRunning' = TRUE
  /\ Begin(1, TRUE)

Tick ==
  /\ timerSet
  /\ \E c \in Slots : FreeSlot(c) /\ Begin(c, FALSE)
  /\ UNCHANGED workerRunning

\* ---- ensureBrowser, past `if (browser) return;` ---------------------------
\* `browser = await puppeteerExtra.launch(...)` settles; on success the
\* function goes on to call browser.newPage()
LaunchDone(c) ==
  /\ cyc[c].pc = "launch"
  /\ \E ok \in BOOLEAN :
       IF ok
       THEN /\ browser' = launched + 1
            /\ launched' = launched + 1
            /\ cyc' = [cyc EXCEPT ![c] = [@ EXCEPT !.pc = "newPage", !.h = launched + 1]]
       ELSE /\ cyc' = [cyc EXCEPT ![c] = Ended(@, "init")]
            /\ UNCHANGED <<browser, launched>>
  /\ session' = SessionAfter(c)
  /\ timerSet' = TimerAfter(c)
  /\ UNCHANGED <<db, page, workerRunning, now, nextId, deliverCalls, wfails>>

\* `page = await browser.newPage()` settles; then page.setUserAgent(...) is called
NewPageDone(c) ==
  /\ cyc[c].pc = "newPage"
  /\ \E ok \in BOOLEAN :
       IF ok
       THEN /\ page' = cyc[c].h
            /\ cyc' = [cyc EXCEPT ![c] = [@ EXCEPT !.pc = "setUserAgent", !.h = NoHandle]]
       ELSE /\ cyc' = [cyc EXCEPT ![c] = Ended(@, "init")]
            /\ UNCHANGED page
  /\ session' = SessionAfter(c)
  /\ timerSet' = TimerAfter(c)
  /\ UNCHANGED <<db, browser, workerRunning, now, nextId, launched, deliverCalls, wfails>>

\* `await page.setUserAgent(...)` settles; then loadCookiesFromEnv(page) is called
SetUserAgentDone(c) ==
  /\ cyc[c].pc = "setUserAgent"
  /\ \E ok \in BOOLEAN :
       cyc' = [cyc EXCEPT ![c] =
                 IF ok THEN [@ EXCEPT !.pc = "loadCookies"] ELSE Ended(@, "init")]
  /\ session' = SessionAfter(c)
  /\ timerSet' = TimerAfter(c)
  /\ UNCHANGED <<db, browser, page, workerRunning, now, nextId, launched,
                 deliverCalls, wfails>>

\* loadCookiesFromEnv returns true or false, never raises; then page.goto(messenger)
LoadCookiesDone(c) ==
  /\ cyc[c].pc = "loadCookies"
  /\ cyc' = [cyc EXCEPT ![c] = [@ EXCEPT !.pc = "goto"]]
  /\ UNCHANGED <<db, browser, page, workerRunning, timerSet, now, nextId,
                 launched, deliverCalls, wfails, session>>

\* `await page.goto(...).catch(...)` settles (a failure is logged and dropped);
\* ensureBrowser returns and processQueueOnce calls page.evaluate
GotoDone(c) ==
  /\ cyc[c].pc = "goto"
  /\ cyc' = [cyc EXCEPT ![c] = [@ EXCEPT !.pc = "evaluate"]]
  /\ session' = "ready"
  /\ UNCHANGED <<db, browser, page, workerRunning, timerSet, now, nextId,
                 launched, deliverCalls, wfails>>

\* ---- the cycle past ensureBrowser ---------------------------------------
\* the call sendMessageToThread(msg.toThreadId, msg.text) for the next
\* captured message, up to its first await
CallDeliver(r) == [r EXCEPT !.pc = "deliver", !.i = r.i + 1]

\* the calls made so far, with the one NextIteration(r) makes, if it makes one
CountCall(r) ==
  IF r.i < Len(r.queued)
  THEN [deliverCalls EXCEPT ![r.queued[r.i + 1].id] = @ + 1]
  ELSE deliverCalls

\* `for (const msg of queued)`: the next iteration, or the end of the run
NextIteration(r) ==
  IF r.i < Len(r.queued) THEN CallDeliver(r) ELSE Ended(r, "none")

\* `const isLoggedIn = await page.evaluate(...).catch(() => false)` settles
EvaluateDone(c) ==
  /\ cyc[c].pc = "evaluate"
  /\ \E isLoggedIn \in BOOLEAN :
       IF ~isLoggedIn
       THEN /\ cyc' = [cyc EXCEPT ![c] = Ended(@, "auth")]
            /\ UNCHANGED deliverCalls
       ELSE /\ cyc' = [cyc EXCEPT ![c] = NextIteration(@)]
            /\ deliverCalls' = CountCall(cyc[c])
  /\ timerSet' = TimerAfter(c)
  /\ UNCHANGED <<db, browser, page, workerRunning, now, nextId, launched, wfails, session>>

Replace(msgs, k, m) == [msgs EXCEPT ![k] = m]

\* `await sendMessageToThread(...)` settles: the status write-back of the try
\* block (ok) or of the catch block (not ok, or writeDb raised in the try
\* block), then the next iteration.  w1: the writeDb of the try block raises;
\* w2: the writeDb of the catch block raises and the outer catch ends the run.
DeliverDone(c) ==
  /\ cyc[c].pc = "deliver"
  /\ \E ok \in BOOLEAN, w1 \in BOOLEAN, w2 \in BOOLEAN :
       LET r == cyc[c]
           msg == r.queued[r.i]
           db2 == readDb
           k == FindIndex(db2.messages, msg.id)
           target == k # 0
           tryRaises == ok /\ target /\ w1
           inCatch == ~ok \/ tryRaises
           catchRaises == inCatch /\ target /\ w2
           used == (IF tryRaises THEN 1 ELSE 0) + (IF catchRaises THEN 1 ELSE 0)
           err == IF ok THEN ErrWrite ELSE ErrComposer
           r2 == [r EXCEPT !.res = Append(@, ok)]
       IN  /\ w1 => (ok /\ target)
           /\ w2 => (inCatch /\ target)
           /\ wfails + used <= MaxWriteFails
           /\ wfails' = wfails + used
           /\ IF ok /\ target /\ ~w1
              THEN writeDb([db2 EXCEPT !.messages =
                              Replace(@, k, MarkSent(@[k], now))])
              ELSE IF inCatch /\ target /\ ~w2
              THEN writeDb([db2 EXCEPT !.messages =
                              Replace(@, k, MarkFailed(@[k], err, now))])
              ELSE UNCHANGED db
           /\ IF catchRaises
              THEN /\ cyc' = [cyc EXCEPT ![c] = Ended(r2, "write")]
                   /\ UNCHANGED deliverCalls
              ELSE /\ cyc' = [cyc EXCEPT ![c] = NextIteration(r2)]
                   /\ deliverCalls' = CountCall(r)
  /\ timerSet' = TimerAfter(c)
  /\ UNCHANGED <<browser, page, workerRunning, now, nextId, launched, session>>

\* ---- the request handlers -----------------------------------------------
\* Each handler is synchronous: readDb, the mutation and writeDb are one step.
\* A writeDb that raises in a handler leaves the file as it was (the request
\* gets a 500), which is a stuttering step.
\* the handler without its 400 branch: any body is queued
Send_NoValidation(toThreadId, text, senderName) ==
  /\ nextId < MaxMsgs
  /\ nextId' = nextId + 1
  /\ writeDb([readDb EXCEPT !.messages =
                Append(@, NewItem(nextId + 1, toThreadId, text, senderName, now))])
  /\ UNCHANGED <<browser, page, workerRunning, timerSet, cyc, now,
                 launched, deliverCalls, wfails, session>>

\* POST /api/send
Send(toThreadId, text, senderName) ==
  IF toThreadId = "" \/ text = ""
  THEN UNCHANGED vars
  ELSE /\ nextId < MaxMsgs
       /\ nextId' = nextId + 1
       /\ writeDb([readDb EXCEPT !.messages =
                     Append(@, NewItem(nextId + 1, toThreadId, text, senderName, now))])
       /\ UNCHANGED <<browser, page, workerRunning, timerSet, cyc, now,
                      launched, deliverCalls, wfails, session>>

\* POST /api/pair
Pair(code) ==
  /\ writeDb([readDb EXCEPT !.pairings =
                {p \in @ : p.code # code} \cup {[code |-> code, createdAt |-> now]}])
  /\ UNCHANGED <<browser, page, workerRunning, timerSet, cyc, now, nextId,
                 launched, deliverCalls, wfails, session>>

\* the file reset to its initial image, pairings included
ClearQueue_ResetsFile ==
  /\ writeDb(EmptyDb)
  /\ UNCHANGED <<browser, page, workerRunning, timerSet, cyc, now, nextId,
                 launched, deliverCalls, wfails, session>>

\* POST /api/clear-queue
ClearQueue ==
  /\ writeDb([readDb EXCEPT !.messages = <<>>])
  /\ UNCHANGED <<browser, page, workerRunning, timerSet, cyc, now, nextId,
                 launched, deliverCalls, wfails, session>>

\* the wall clock moves on
ClockAdvance ==
  /\ now < MaxTime
  /\ now' = now + 1
  /\ UNCHANGED <<db, browser, page, workerRunning, timerSet, cyc, nextId,
                 launched, deliverCalls, wfails, session>>

Init ==
  /\ db = EmptyDb
  /\ browser = NoHandle
  /\ page = NoHandle
  /\ workerRunning = FALSE
  /\ timerSet = FALSE
  /\ cyc = [c \in Slots |-> IdleCycle]
  /\ now = 1
  /\ nextId = 0
  /\ launched = 0
  /\ deliverCalls = [id \in 1..MaxMsgs |-> 0]
  /\ wfails = 0
  /\ session = "none"

Worker ==
  \E c \in Slots :
    \/ LaunchDone(c)
    \/ NewPageDone(c)
    \/ SetUserAgentDone(c)
    \/ LoadCookiesDone(c)
    \/ GotoDone(c)
    \/ EvaluateDone(c)
    \/ DeliverDone(c)

Requests ==
  \/ \E t \in Threads, x \in Texts, s \in Senders : Send(t, x, s)
  \/ \E code \in Codes : Pair(code)
  \/ ClearQueue

Next == StartWorker \/ Tick \/ Worker \/ Requests \/ ClockAdvance

Spec == Init /\ [][Next]_vars

\* ---- vocabulary of the properties ----------------------------------------
InFlight(c) == cyc[c].pc \notin {"idle", "done"}

\* run c reaches its end in this step
Finishes(c) == InFlight(c) /\ cyc'[c].pc = "done"

\* run c starts in this step
Begins(c) == ~InFlight(c) /\ cyc'[c] # cyc[c]

Terminal(m) == m.status \in {"sent", "failed"}

SameOutcome(m, n) ==
  /\ n.status = m.status
  /\ n.sentAt = m.sentAt
  /\ n.attemptedAt = m.attemptedAt
  /\ n.lastError = m.lastError

\* C1: once a record is sent or failed, no step changes its status, sentAt,
\* attemptedAt or lastError for as long as the record is in the store.
C1_TerminalRecordFrozen ==
  [][\A k \in 1..Len(db.messages) : \A j \in 1..Len(db'.messages) :
       (Terminal(db.messages[k]) /\ db'.messages[j].id = db.messages[k].id)
         => SameOutcome(db.messages[k], db'.messages[j])]_vars

\* C2: at no time are two runs of processQueueOnce in progress together.
C2_OneCycleAtATime == Cardinality({c \in Slots : InFlight(c)}) <= 1

\* C3: sendMessageToThread is invoked at most once for every message id.
C3_DeliveredAtMostOnce == \A id \in 1..MaxMsgs : deliverCalls[id] <= 1

\* C4: a queued record has neither sentAt nor attemptedAt; a sent record has
\* sentAt and no attemptedAt; a failed record has attemptedAt and no sentAt.
C4_ExactlyOneTimestamp ==
  \A k \in 1..Len(db.messages) :
    LET m == db.messages[k]
    IN  /\ m.status = "queued" => (m.sentAt = NoTime /\ m.attemptedAt = NoTime)
        /\ m.status = "sent" => (m.sentAt # NoTime /\ m.attemptedAt = NoTime)
        /\ m.status = "failed" => (m.attemptedAt # NoTime /\ m.sentAt = NoTime)

\* the record of a captured message in the store d, as a set (empty once cleared)
StoredAs(d, msg) ==
  {d.messages[k] : k \in {j \in 1..Len(d.messages) : d.messages[j].id = msg.id}}

SessionUnavailable(r) == r.abort \in {"init", "auth", "page"}

C5_Post(c) ==
  \A n \in 1..Len(cyc[c].queued) : \A m \in StoredAs(db, cyc[c].queued[n]) :
    \/ m.status = "sent" /\ m.sentAt # NoTime /\ m.lastError = Null
    \/ m.status = "failed" /\ m.attemptedAt # NoTime /\ m.lastError # Null
    \/ m.status = "queued" /\ SessionUnavailable(cyc[c])

\* C5: when a run finishes, every message it captured (and that is still in
\* the store) is sent with sentAt and no lastError, or failed with attemptedAt
\* and lastError, or still queued, the last only if the session was unavailable.
C5_OutcomeAtCycleEnd == [][\A c \in Slots : Finishes(c) => C5_Post(c)']_vars

C6_Post(c) ==
  /\ cyc[c].i = 0
  /\ \A n \in 1..Len(cyc[c].queued) : \A m \in StoredAs(db, cyc[c].queued[n]) :
       m.status = "queued" /\ m.lastError = Null

\* C6: a run that ends because ensureBrowser raised or the login check was
\* false has called sendMessageToThread for no message and written nothing,
\* and every message it captured is still queued with no error when it ends.
C6_AbortLeavesQueueAlone ==
  [][\A c \in Slots :
       (Finishes(c) /\ cyc'[c].abort \in {"init", "auth"})
         => (db' = db /\ deliverCalls' = deliverCalls /\ C6_Post(c)')]_vars

\* C7: after ensureBrowser has raised and before any call of it has returned,
\* a run that finds a queued message calls puppeteerExtra.launch again.
C7_InitRetried ==
  [][\A c \in Slots :
       (Begins(c) /\ session = "failed" /\ QueuedOf(db.messages) # <<>>)
         => cyc'[c].pc = "launch"]_vars

\* C8: the browser is created at most once.
C8_SessionCreatedOnce == launched <= 1

\* C9: a run that reads the store and finds no queued message ends at once,
\* having called neither ensureBrowser, page.evaluate nor sendMessageToThread,
\* and leaves the store and the session handles as they were.
C9_EmptyCycleTouchesNothing ==
  [][\A c \in Slots :
       (Begins(c) /\ QueuedOf(db.messages) = <<>>)
         => /\ cyc'[c].pc = "done" /\ cyc'[c].abort = "none" /\ cyc'[c].i = 0
            /\ db' = db /\ browser' = browser /\ page' = page
            /\ launched' = launched /\ deliverCalls' = deliverCalls
            /\ session' = session]_vars

\* a timer run found sent records only and ended without touching the session
C9_Witness ==
  \E c \in Slots :
    /\ cyc[c].pc = "done" /\ cyc[c].queued = <<>> /\ ~cyc[c].first
    /\ Len(db.messages) > 0
    /\ \A k \in 1..Len(db.messages) : db.messages[k].status = "sent"
    /\ \A d \in Slots : ~InFlight(d)

\* C10: when a delivery raises in a run, the record (if still stored) becomes
\* failed with lastError set, and the run goes on to the next captured message.
C10_DeliveryFailureContinues ==
  [][\A c \in Slots :
       (cyc[c].pc = "deliver" /\ cyc'[c].res = Append(cyc[c].res, FALSE))
         => /\ \A m \in StoredAs(db', cyc[c].queued[cyc[c].i]) :
                 m.status = "failed" /\ m.lastError # Null
            /\ cyc[c].i < Len(cyc[c].queued)
                 => (cyc'[c].pc = "deliver" /\ cyc'[c].i = cyc[c].i + 1)]_vars

Ids(msgs) == {msgs[k].id : k \in 1..Len(msgs)}

\* C11: a write-back for a captured message whose record is no longer in the
\* store (the queue was cleared) writes nothing, so records submitted after
\* the clear are untouched; and an id that left the store never comes back:
\* every id that enters the store is one uuidv4() has not issued before.
C11_ClearedStaysCleared ==
  [][/\ \A id \in Ids(db'.messages) \ Ids(db.messages) : id > nextId
     /\ \A c \in Slots :
          (/\ cyc[c].pc = "deliver"
           /\ cyc'[c] # cyc[c]
           /\ cyc[c].queued[cyc[c].i].id \notin Ids(db.messages))
            => db' = db]_vars

\* a run has settled the delivery of its only captured message, whose record
\* is gone, and the store holds a later, still queued and never delivered one
C11_Witness ==
  \E c \in Slots :
    /\ cyc[c].pc = "done" /\ Len(cyc[c].queued) = 1 /\ Len(cyc[c].res) = 1
    /\ cyc[c].queued[1].id \notin Ids(db.messages)
    /\ Len(db.messages) = 1
    /\ db.messages[1].id > cyc[c].queued[1].id
    /\ db.messages[1].status = "queued"
    /\ deliverCalls[db.messages[1].id] = 0

\* ---- the process is killed and started again ------------------------------
\* The module variables start afresh (browser, page, workerRunning, no timer,
\* no run); the queue file is what the kill left on disk.  The per-process
\* histories (launched, deliverCalls, session) start afresh too.
Restart(file) ==
  /\ db' = file
  /\ browser' = NoHandle
  /\ page' = NoHandle
  /\ workerRunning' = FALSE
  /\ timerSet' = FALSE
  /\ cyc' = [c \in Slots |-> IdleCycle]
  /\ launched' = 0
  /\ deliverCalls' = [id \in 1..MaxMsgs |-> 0]
  /\ session' = "none"
  /\ UNCHANGED <<now, nextId, wfails>>

\* killed while a run is suspended at an await: the file is as last written
Crash ==
  /\ \E c \in Slots : InFlight(c)
  /\ Restart(db)

\* killed inside the fs.writeFileSync of a status write-back, after the file
\* was truncated and before its new content was complete.  JSON.parse then
\* fails on it, so every readDb returns { messages: [], pairings: {} } until
\* the next writeDb replaces the file: to the program the file reads as EmptyDb.
\* fs.existsSync(DB_FILE) is true at the restart, so the file is not rewritten.
CrashInWrite ==
  /\ \E c \in Slots :
       /\ cyc[c].pc = "deliver"
       /\ FindIndex(readDb.messages, cyc[c].queued[cyc[c].i].id) # 0
  /\ Restart(EmptyDb)

NextCrash == Next \/ Crash \/ CrashInWrite

SpecCrash == Init /\ [][NextCrash]_vars

\* C12: when the process is killed during a run and restarts, every record
\* whose sent or failed status was in the store before the kill still has
\* that status (and its timestamps and error) in the store after the restart.
C12_WrittenStatusSurvivesCrash ==
  [][(workerRunning /\ ~workerRunning')
       => \A k \in 1..Len(db.messages) :
            Terminal(db.messages[k])
              => \E j \in 1..Len(db'.messages) :
                   /\ db'.messages[j].id = db.messages[k].id
                   /\ SameOutcome(db.messages[k], db'.messages[j])]_vars

\* C13: however the first run ends (return, session error, login check false,
\* store error), the interval timer is installed when it ends, and no step of
\* any run or handler removes the timer once it is installed.
C13_ScheduleSurvivesFailures ==
  [][/\ timerSet => timerSet'
     /\ \A c \in Slots : (cyc'[c].first /\ cyc'[c].pc = "done") => timerSet']_vars

\* the first run was ended by an error and the timer is installed
C13_Witness ==
  /\ timerSet
  /\ cyc[1].first /\ cyc[1].pc = "done"
  /\ cyc[1].abort \in {"init", "page", "write"}

\* C14: a run captures the queued records in store order, and attempts them
\* one at a time in that order: the captured list never changes, the index
\* of the message under delivery moves by one, only when the attempt before
\* it has settled (its write-back is part of that step), and at most one
\* attempt of the run is outstanding.
C14_InOrderOneAtATime ==
  [][\A c \in Slots :
       /\ Begins(c) =>
            LET q == cyc'[c].queued
            IN  /\ {q[n].id : n \in 1..Len(q)} =
                     {db.messages[k].id : k \in {j \in 1..Len(db.messages) :
                                                   db.messages[j].status = "queued"}}
                /\ \A a \in 1..Len(q) : \A b \in 1..Len(q) :
                     a < b => FindIndex(db.messages, q[a].id)
                                < FindIndex(db.messages, q[b].id)
       /\ (InFlight(c) /\ cyc'[c] # cyc[c]) =>
            /\ cyc'[c].queued = cyc[c].queued
            /\ cyc'[c].i \in {cyc[c].i, cyc[c].i + 1}
            /\ cyc'[c].i = cyc[c].i + 1 => Len(cyc'[c].res) = cyc[c].i
            /\ cyc'[c].pc = "deliver" => cyc'[c].i = Len(cyc'[c].res) + 1]_vars

\* a run captured two messages and has settled both attempts
C14_Witness ==
  \E c \in Slots :
    /\ cyc[c].pc = "done" /\ cyc[c].abort = "none"
    /\ Len(cyc[c].queued) = 2 /\ cyc[c].i = 2 /\ Len(cyc[c].res) = 2
    /\ cyc[c].queued[1].id < cyc[c].queued[2].id

\* C15: a step that removes a record from the store (only POST /api/clear-queue
\* does) removes every record, whatever its status, and leaves the pairings
\* as they were.
C15_ClearKeepsPairings ==
  [][Len(db'.messages) < Len(db.messages)
       => (db'.messages = <<>> /\ db'.pairings = db.pairings)]_vars

\* the queue was cleared after a delivery was recorded, and a pairing made at
\* the first clock value is still stored at the second
C15_Witness ==
  /\ db.messages = <<>>
  /\ db.pairings = {[code |-> 1, createdAt |-> 1]}
  /\ now = 2
  /\ \E c \in Slots :
       cyc[c].pc = "done" /\ Len(cyc[c].res) = 1 /\ cyc[c].abort = "none"

\* C16: a step that issues an id (an accepted POST /api/send) appends exactly
\* one record after the existing ones, which it leaves as they were; the new
\* record has an id never issued before, non-empty toThreadId and text, status
\* queued and neither sentAt nor attemptedAt.  No other step adds a record: a
\* request with an empty toThreadId or text leaves the store as it was.
C16_SubmitAppendsOneQueued ==
  [][/\ nextId' # nextId =>
          LET n == Len(db.messages)
              m == db'.messages[n + 1]
          IN  /\ Len(db'.messages) = n + 1
              /\ \A k \in 1..n : db'.messages[k] = db.messages[k]
              /\ db'.pairings = db.pairings
              /\ m.id > nextId /\ m.id \notin Ids(db.messages)
              /\ m.toThreadId # "" /\ m.text # ""
              /\ m.status = "queued"
              /\ m.sentAt = NoTime /\ m.attemptedAt = NoTime
     /\ Len(db'.messages) > Len(db.messages) => nextId' # nextId]_vars

\* a second message was submitted after the first was recorded as sent
C16_Witness ==
  /\ Len(db.messages) = 2
  /\ db.messages[1].status = "sent"
  /\ db.messages[2].status = "queued"
  /\ db.messages[2].createdAt > db.messages[1].sentAt
  /\ deliverCalls[db.messages[2].id] = 0

SameContent(m, n) ==
  /\ n.id = m.id
  /\ n.toThreadId = m.toThreadId
  /\ n.text = m.text
  /\ n.senderName = m.senderName
  /\ n.createdAt = m.createdAt

\* C17: as long as a record is in the store its id, toThreadId, text,
\* senderName and createdAt stay as created; and a step of the worker (a step
\* that moves a run) neither adds, removes nor reorders records, nor changes
\* the pairings.
C17_WorkerChangesOutcomeOnly ==
  [][/\ \A k \in 1..Len(db.messages) : \A j \in 1..Len(db'.messages) :
          db'.messages[j].id = db.messages[k].id
            => SameContent(db.messages[k], db'.messages[j])
     /\ cyc' # cyc =>
          /\ Len(db'.messages) = Len(db.messages)
          /\ \A k \in 1..Len(db.messages) : db'.messages[k].id = db.messages[k].id
          /\ db'.pairings = db.pairings]_vars

\* the worker recorded one of two stored messages as sent, at a later clock
\* value than its creation, with a pairing in the store
C17_Witness ==
  /\ Len(db.messages) = 2
  /\ db.pairings # {}
  /\ \E k \in 1..2 :
       /\ db.messages[k].status = "sent"
       /\ db.messages[k].sentAt > db.messages[k].createdAt

\* C18: the step in which a delivery that returned success is settled never
\* turns the record of that message into failed.
C18_FailedOnlyIfDeliveryRaised ==
  [][\A c \in Slots :
       (cyc[c].pc = "deliver" /\ cyc'[c].res = Append(cyc[c].res, TRUE))
         => \A m \in StoredAs(db', cyc[c].queued[cyc[c].i]) :
              m.status = "failed"
                => \E n \in StoredAs(db, cyc[c].queued[cyc[c].i]) :
                     n.status = "failed"]_vars

\* C19: no update is lost.  A step of the worker keeps every record and every
\* pairing that is in the store, so what the handlers stored while a run was
\* in flight is there after each of its write-backs; and a handler step that
\* is not a clear leaves every existing record as it was, so it never puts
\* an older status back.
C19_NoLostUpdate ==
  [][/\ cyc' # cyc =>
          /\ Ids(db.messages) \subseteq Ids(db'.messages)
          /\ db.pairings \subseteq db'.pairings
     /\ (cyc' = cyc /\ Len(db'.messages) >= Len(db.messages)) =>
          \A k \in 1..Len(db.messages) : db'.messages[k] = db.messages[k]]_vars

\* message 2 was submitted while the run that delivered message 1 was in
\* flight (the run did not capture it, and it was created before the run's
\* write-back), and it is in the store, queued, after that write-back
C19_Witness ==
  \E c \in Slots :
    /\ cyc[c].pc = "done" /\ Len(cyc[c].queued) = 1 /\ Len(cyc[c].res) = 1
    /\ cyc[c].queued[1].id = 1
    /\ deliverCalls[1] = 1
    /\ Len(db.messages) = 2
    /\ db.messages[1].id = 1 /\ db.messages[1].status = "sent"
    /\ db.messages[2].status = "queued"
    /\ db.messages[2].createdAt < db.messages[1].sentAt

\* ---- the worker with a session that initializes and stays logged in -------
\* The steps of a run in which no step of ensureBrowser raises and the login
\* check returns true; a delivery may return or raise, a writeDb may raise.
LiveStep(c) ==
  \/ LaunchDone(c) /\ cyc'[c].pc = "newPage"
  \/ NewPageDone(c) /\ cyc'[c].pc = "setUserAgent"
  \/ SetUserAgentDone(c) /\ cyc'[c].pc = "loadCookies"
  \/ LoadCookiesDone(c)
  \/ GotoDone(c)
  \/ EvaluateDone(c) /\ cyc'[c].abort # "auth"
  \/ DeliverDone(c)

NextLive ==
  StartWorker \/ Tick \/ (\E c \in Slots : LiveStep(c)) \/ Requests \/ ClockAdvance

\* the worker is started, the timer keeps firing, every awaited promise settles
Fairness ==
  /\ WF_vars(StartWorker)
  /\ WF_vars(Tick)
  /\ \A c \in Slots : WF_vars(LiveStep(c))

SpecLive == Init /\ [][NextLive]_vars /\ Fairness

IsQueued(id) ==
  \E k \in 1..Len(db.messages) :
    db.messages[k].id = id /\ db.messages[k].status = "queued"

====
